---------------------------- MODULE Spec2Model ----------------------------
(***************************************************************************)
(* Chest X-ray pneumonia classifier: the predictor CLI (src/predict.py)    *)
(* and the training script (src/train_model.py) as state machines.         *)
(*                                                                         *)
(* Strings that the code inspects character by character (file names,     *)
(* extensions, paths) are sequences of one-character strings, so that      *)
(* lower(), endswith(), os.path.join() and os.path.basename() are computed *)
(* rather than assumed.  A probability is the integer k standing for       *)
(* k / Scale, so 0.5 is Half and 1.0 is Scale.                             *)
(***************************************************************************)
EXTENDS Integers, Sequences, FiniteSets, TLC

VARIABLES
    \* ---- predict.py ----
    pc,           \* position of the predictor process
    fs,           \* the file system: [files, dirs, listing]
    model_file,   \* what is at args.model: "missing", "valid" or "corrupt"
    argv,         \* args.images
    argi,         \* index of the next element of args.images in main's loop
    model,        \* main's local `model`: "none" or "loaded"
    image_paths,  \* main's local `image_paths`
    results,      \* predict_batch's local `results`
    bi,           \* predict_batch's loop index i (1-based, as enumerate(.., 1))
    stdout,       \* the lines printed so far
    calls,        \* calls made so far: [preprocess, predict, predict_image, predict_batch]
    \* ---- train_model.py ----
    tpc,          \* position of the training script
    keras3,       \* the installed framework generation (see EarlyStoppingEpochEnd)
    epoch,        \* number of epochs completed
    weights,      \* the model's parameters, tagged by the epoch that produced them
    stop_training,\* model.stop_training
    es,           \* EarlyStopping's fields: [best, wait, best_weights, stopped_epoch]
    rl,           \* ReduceLROnPlateau's fields: [best, wait]
    halvings,     \* the optimizer's learning rate is LEARNING_RATE * 0.5^halvings
    ck_best,      \* ModelCheckpoint.best
    disk,         \* the two artifacts: [best_model, final_model]
    hist,         \* history.history: per epoch [val_loss, val_accuracy, saved]
    passes        \* passes run so far: [train, val, test, final_saves]

pvars == <<pc, fs, model_file, argv, argi, model, image_paths, results, bi, stdout, calls>>
tvars == <<tpc, keras3, epoch, weights, stop_training, es, rl, halvings, ck_best, disk,
           hist, passes>>
vars == <<pvars, tvars>>

----------------------------------------------------------------------------
(* Bounds of the model *)

\* probabilities are k / (2 * Half), k in 0 .. 2 * Half
Half == 1
\* length of args.images
MaxArgs == 3
\* number of entries of the directory
MaxListing == 3
\* length of the image list handed to predict_batch in BatchSpec
MaxImages == 3

Scale == 2 * Half
Probs == 0 .. Scale

----------------------------------------------------------------------------
(* Strings *)

LowerChar(c) ==
    CASE c = "J" -> "j"
      [] c = "P" -> "p"
      [] c = "E" -> "e"
      [] c = "G" -> "g"
      [] c = "N" -> "n"
      [] OTHER -> c

\* str.lower()
Lower(s) == [i \in 1 .. Len(s) |-> LowerChar(s[i])]

\* str.endswith(suffix)
EndsWith(s, suffix) ==
    /\ Len(s) >= Len(suffix)
    /\ SubSeq(s, Len(s) - Len(suffix) + 1, Len(s)) = suffix

\* os.path.join(path, f) for a relative f
Join(path, f) ==
    IF path = <<>> THEN f
    ELSE IF path[Len(path)] = "/" THEN path \o f
    ELSE path \o <<"/">> \o f

\* os.path.basename(p): what follows the last separator
RECURSIVE Basename(_)
Basename(p) ==
    IF p = <<>> THEN <<>>
    ELSE IF p[Len(p)] = "/" THEN <<>>
    ELSE Append(Basename(SubSeq(p, 1, Len(p) - 1)), p[Len(p)])

\* ['.jpg', '.jpeg', '.png'], in the order the code loops over them
Extensions == << <<".", "j", "p", "g">>, <<".", "j", "p", "e", "g">>, <<".", "p", "n", "g">> >>

----------------------------------------------------------------------------
(* The file system the predictor runs against *)

DirPath == <<"d">>
PngPath == <<"e", ".", "p", "n", "g">>
TxtPath == <<"n", ".", "t", "x", "t">>
TopPaths == {DirPath, PngPath, TxtPath}

\* names a directory may hold
DirNames ==
    { <<"a", ".", "p", "n", "g">>,
      <<"b", ".", "j", "p", "g">>,
      <<"c", ".", "J", "P", "e", "G">>,
      <<"n", ".", "t", "x", "t">>,
      <<"j", "p", "g">> }

Range(s) == {s[i] : i \in 1 .. Len(s)}

\* os.listdir returns each name once, in arbitrary order
Listings ==
    UNION { {s \in [1 .. n -> DirNames] : \A i, j \in 1 .. n : i # j => s[i] # s[j]}
            : n \in 0 .. MaxListing }

ArgLists == UNION { [1 .. n -> TopPaths] : n \in 1 .. MaxArgs }

IsDir(path) == path \in fs.dirs
IsFile(path) == path \in fs.files
Exists(path) == IsDir(path) \/ IsFile(path)
ListDir(path) == IF path = DirPath THEN fs.listing ELSE <<>>

FileSystemsOver(l) ==
    { [files |-> tf \cup {Join(DirPath, f) : f \in Range(l) \ sub},
       dirs |-> {DirPath} \cup {Join(DirPath, f) : f \in sub},
       listing |-> l] :
        tf \in SUBSET {PngPath, TxtPath},
        sub \in {s \in SUBSET Range(l) : Cardinality(s) <= 1} }

\* either DirPath is a directory (one of its entries may itself be a directory), or
\* it is a plain file or missing
FileSystems ==
    UNION { FileSystemsOver(l) : l \in Listings }
    \cup { [files |-> tf, dirs |-> {}, listing |-> <<>>] : tf \in SUBSET TopPaths }

----------------------------------------------------------------------------
(* predict.py *)

Line(tag, a, b, c) == [tag |-> tag, a |-> a, b |-> b, c |-> c]
Printed(tag) == \E k \in 1 .. Len(stdout) : stdout[k].tag = tag

\* Interpret with the threshold test written >= instead of >
InterpretInclusive(prediction) ==
    IF prediction >= Half
    THEN [diagnosis |-> "PNEUMONIA", confidence |-> prediction, raw |-> prediction]
    ELSE [diagnosis |-> "NORMAL", confidence |-> Scale - prediction, raw |-> prediction]

\* lines 51-58 of predict_image: the threshold and the confidence
Interpret(prediction) ==
    IF prediction > Half
    THEN [diagnosis |-> "PNEUMONIA", confidence |-> prediction, raw |-> prediction]
    ELSE [diagnosis |-> "NORMAL", confidence |-> Scale - prediction, raw |-> prediction]

\* what preprocess_image and model.predict can do for one path: Image.open raises
\* (always so for a directory), model.predict raises, or it returns a probability
Outcomes(path) ==
    {[kind |-> "preprocess_error", p |-> 0]}
    \cup (IF IsDir(path) THEN {}
          ELSE {[kind |-> "inference_error", p |-> 0]}
               \cup {[kind |-> "ok", p |-> p] : p \in Probs})

\* the calls predict_image makes for an outcome
CallsAfter(c, o) ==
    [c EXCEPT !.predict_image = @ + 1,
              !.preprocess = @ + 1,
              !.predict = IF o.kind = "preprocess_error" THEN @ ELSE @ + 1]

\* the lines predict_image prints (61-64) when it returns
PredictionLines(r) == << Line("Prediction", r.diagnosis, r.confidence, r.raw) >>

\* ExpandDir without the call to lower()
ExpandDirCaseSensitive(path) ==
    LET matching(ext) == SelectSeq(ListDir(path), LAMBDA f : EndsWith(f, ext))
        joined(ext) == [k \in 1 .. Len(matching(ext)) |-> Join(path, matching(ext)[k])]
    IN joined(Extensions[1]) \o joined(Extensions[2]) \o joined(Extensions[3])

\* one directory: for each extension in turn, the matching names of the listing
ExpandDir(path) ==
    LET matching(ext) == SelectSeq(ListDir(path), LAMBDA f : EndsWith(Lower(f), ext))
        joined(ext) == [k \in 1 .. Len(matching(ext)) |-> Join(path, matching(ext)[k])]
    IN joined(Extensions[1]) \o joined(Extensions[2]) \o joined(Extensions[3])

\* CollectOne with a plain else instead of elif os.path.isfile(path)
CollectOneNoFileCheck(paths, path) ==
    IF IsDir(path) THEN paths \o ExpandDir(path)
    ELSE Append(paths, path)

\* one iteration of main's loop over args.images
CollectOne(paths, path) ==
    IF IsDir(path) THEN paths \o ExpandDir(path)
    ELSE IF IsFile(path) THEN Append(paths, path)
    ELSE paths

NoCalls == [preprocess |-> 0, predict |-> 0, predict_image |-> 0, predict_batch |-> 0]

PredictInit ==
    /\ pc = "main"
    /\ fs \in FileSystems
    /\ model_file \in {"missing", "valid", "corrupt"}
    /\ argv \in ArgLists
    /\ argi = 1
    /\ model = "none"
    /\ image_paths = <<>>
    /\ results = <<>>
    /\ bi = 0
    /\ stdout = <<>>
    /\ calls = NoCalls

\* LoadModel without the os.path.exists check, the failure of the load swallowed
LoadModelNoCheck ==
    /\ pc = "main"
    /\ \/ /\ model_file \in {"missing", "corrupt"}
          /\ pc' = "collect"
          /\ stdout' = Append(stdout, Line("Loading", 0, 0, 0))
          /\ UNCHANGED model
       \/ /\ model_file = "valid"
          /\ pc' = "collect"
          /\ model' = "loaded"
          /\ stdout' = stdout \o << Line("Loading", 0, 0, 0), Line("Loaded", 0, 0, 0) >>
    /\ UNCHANGED <<fs, model_file, argv, argi, image_paths, results, bi, calls>>

\* load_model: raise when the file is missing, else load it (which may itself raise)
LoadModel ==
    /\ pc = "main"
    /\ \/ /\ model_file = "missing"
          /\ pc' = "fatal"
          /\ UNCHANGED <<model, stdout>>
       \/ /\ model_file = "corrupt"
          /\ pc' = "fatal"
          /\ stdout' = Append(stdout, Line("Loading", 0, 0, 0))
          /\ UNCHANGED model
       \/ /\ model_file = "valid"
          /\ pc' = "collect"
          /\ model' = "loaded"
          /\ stdout' = stdout \o << Line("Loading", 0, 0, 0), Line("Loaded", 0, 0, 0) >>
    /\ UNCHANGED <<fs, model_file, argv, argi, image_paths, results, bi, calls>>

\* main, lines 122-128: one path of args.images
CollectPath ==
    /\ pc = "collect"
    /\ argi <= Len(argv)
    /\ image_paths' = CollectOne(image_paths, argv[argi])
    /\ argi' = argi + 1
    /\ UNCHANGED <<pc, fs, model_file, argv, model, results, bi, stdout, calls>>

\* NoValidImages without its return: main goes on into predict_batch
NoValidImagesNoReturn ==
    /\ pc = "collect"
    /\ argi > Len(argv)
    /\ image_paths = <<>>
    /\ results' = <<>>
    /\ bi' = 1
    /\ stdout' = stdout \o << Line("NoValidImages", 0, 0, 0), Line("Processing", 0, 0, 0) >>
    /\ calls' = [calls EXCEPT !.predict_batch = @ + 1]
    /\ pc' = "batch"
    /\ UNCHANGED <<fs, model_file, argv, argi, model, image_paths>>

\* main, lines 130-132
NoValidImages ==
    /\ pc = "collect"
    /\ argi > Len(argv)
    /\ image_paths = <<>>
    /\ stdout' = Append(stdout, Line("NoValidImages", 0, 0, 0))
    /\ pc' = "done"
    /\ UNCHANGED <<fs, model_file, argv, argi, model, image_paths, results, bi, calls>>

\* main, lines 135-136: predict_image on the only image; an exception is not caught
SingleImage ==
    /\ pc = "collect"
    /\ argi > Len(argv)
    /\ Len(image_paths) = 1
    /\ \E o \in Outcomes(image_paths[1]) :
        /\ calls' = CallsAfter(calls, o)
        /\ IF o.kind = "ok"
           THEN /\ stdout' = stdout \o PredictionLines(Interpret(o.p))
                /\ pc' = "done"
           ELSE /\ pc' = "fatal"
                /\ UNCHANGED stdout
    /\ UNCHANGED <<fs, model_file, argv, argi, model, image_paths, results, bi>>

\* main, lines 137-138, and predict_batch, lines 80-82
EnterBatch ==
    /\ pc = "collect"
    /\ argi > Len(argv)
    /\ Len(image_paths) > 1
    /\ results' = <<>>
    /\ bi' = 1
    /\ stdout' = Append(stdout, Line("Processing", Len(image_paths), 0, 0))
    /\ calls' = [calls EXCEPT !.predict_batch = @ + 1]
    /\ pc' = "batch"
    /\ UNCHANGED <<fs, model_file, argv, argi, model, image_paths>>

\* the body of predict_batch's try statement for one image
TryBody(res, out, path, o) ==
    IF o.kind = "ok"
    THEN LET r == Interpret(o.p)
         IN [results |-> Append(res, [image |-> Basename(path),
                                      diagnosis |-> r.diagnosis,
                                      confidence |-> r.confidence,
                                      raw_score |-> r.raw]),
             stdout |-> out \o PredictionLines(r)
                            \o << Line("Arrow", r.diagnosis, r.confidence, 0) >>]
    ELSE [results |-> res,
          stdout |-> Append(out, Line("Error", o.kind, 0, 0))]

\* BatchIterate without the try/except: a failure leaves the loop
BatchIterateNoCatch ==
    /\ pc = "batch"
    /\ bi <= Len(image_paths)
    /\ \E o \in Outcomes(image_paths[bi]) :
        LET progress == Append(stdout, Line("Progress", bi, Len(image_paths),
                                            Basename(image_paths[bi])))
            after == TryBody(results, progress, image_paths[bi], o)
        IN /\ results' = after.results
           /\ stdout' = IF o.kind = "ok" THEN after.stdout ELSE progress
           /\ calls' = CallsAfter(calls, o)
           /\ pc' = IF o.kind = "ok" THEN pc ELSE "fatal"
    /\ bi' = bi + 1
    /\ UNCHANGED <<fs, model_file, argv, argi, model, image_paths>>

\* predict_batch, lines 84-98: one iteration of the loop
BatchIterate ==
    /\ pc = "batch"
    /\ bi <= Len(image_paths)
    /\ \E o \in Outcomes(image_paths[bi]) :
        LET progress == Append(stdout, Line("Progress", bi, Len(image_paths),
                                            Basename(image_paths[bi])))
            after == TryBody(results, progress, image_paths[bi], o)
        IN /\ results' = after.results
           /\ stdout' = after.stdout
           /\ calls' = CallsAfter(calls, o)
    /\ bi' = bi + 1
    /\ UNCHANGED <<pc, fs, model_file, argv, argi, model, image_paths>>

\* CountDiagnosis over the set of results instead of the list
CountDistinct(res, d) ==
    Cardinality({res[k] : k \in {j \in 1 .. Len(res) : res[j].diagnosis = d}})

\* sum(1 for r in results if r['diagnosis'] == d)
CountDiagnosis(res, d) == Cardinality({k \in 1 .. Len(res) : res[k].diagnosis = d})

\* predict_batch, lines 100-107
BatchSummary ==
    /\ pc = "batch"
    /\ bi > Len(image_paths)
    /\ stdout' = stdout \o << Line("Summary", 0, 0, 0),
                              Line("Normal", CountDiagnosis(results, "NORMAL"), 0, 0),
                              Line("Pneumonia", CountDiagnosis(results, "PNEUMONIA"), 0, 0) >>
    /\ pc' = "done"
    /\ UNCHANGED <<fs, model_file, argv, argi, model, image_paths, results, bi, calls>>

----------------------------------------------------------------------------
(* train_model.py *)

\* EPOCHS
EPOCHS == 10
\* EarlyStopping(patience=3)
EsPatience == 3
\* ReduceLROnPlateau(patience=2)
RlPatience == 2
\* LEARNING_RATE * 0.5^k stays above min_lr = 1e-7 for k <= 13: the 14th halving
\* is clamped to min_lr, and nothing is reduced after that
LrFloorHalvings == 14

\* validation loss and validation accuracy are drawn from 1 .. MaxLoss and 1 .. MaxAcc
MaxLoss == 4
MaxAcc == 2
Losses == 1 .. MaxLoss
Accs == 1 .. MaxAcc
\* EarlyStopping.best and ReduceLROnPlateau.best start at +inf, ModelCheckpoint.best
\* at -inf
LossInf == MaxLoss + 1
AccNegInf == 0

\* Parameters are identified by the epoch that produced them (0: the initial ones)
\* and carry the validation metrics measured on them.
Params(e, l, a) == [epoch |-> e, val_loss |-> l, val_accuracy |-> a]
InitialParams == Params(0, LossInf, AccNegInf)
\* EarlyStopping.best_weights = None; a file that does not exist
None == Params(-1, LossInf, AccNegInf)
\* a best_model.keras left by an earlier run
PriorRun == Params(-2, LossInf, AccNegInf)

TrainInit ==
    /\ tpc = "fit"
    /\ keras3 \in BOOLEAN
    /\ epoch = 0
    /\ weights = InitialParams
    /\ stop_training = FALSE
    /\ es = [best |-> LossInf, wait |-> 0, best_weights |-> None, stopped_epoch |-> 0]
    /\ rl = [best |-> LossInf, wait |-> 0]
    /\ halvings = 0
    /\ ck_best = AccNegInf
    /\ disk \in {[best_model |-> b, final_model |-> None, best_writes |-> 0]
                 : b \in {None, PriorRun}}
    /\ hist = [min_loss |-> LossInf, min_epoch |-> 0, max_acc |-> AccNegInf,
               max_epoch |-> 0, stale |-> 0, acc_improved |-> FALSE]
    /\ passes = [train |-> 0, val |-> 0, test_eval |-> 0, test_predict |-> 0,
                 final_saves |-> 0]

\* EarlyStoppingEpochEnd that halts only once wait exceeds the patience
EarlyStoppingLateHalt(e, ep, current, w, k3) ==
    LET seeded == IF e.best_weights = None THEN [e EXCEPT !.best_weights = w] ELSE e
        improved == current < e.best
        e1 == IF improved
              THEN [seeded EXCEPT !.best = current, !.best_weights = w, !.wait = 0]
              ELSE [seeded EXCEPT !.wait = @ + 1]
        halt == e1.wait > EsPatience /\ ep > 0
    IN [es |-> IF halt THEN [e1 EXCEPT !.stopped_epoch = ep] ELSE e1,
        stop |-> halt,
        weights |-> IF halt /\ ~k3 THEN e1.best_weights ELSE w]

\* EarlyStopping(monitor='val_loss', patience=3, restore_best_weights=True), at the
\* end of the epoch with 0-based index ep.  monitor 'val_loss' selects "less than",
\* min_delta is 0.  The callback remembers the parameters of the best epoch; once
\* `wait` reaches the patience it sets model.stop_training.  The framework
\* generation decides when the best parameters are put back: tf.keras 2.x does it
\* here, in on_epoch_end, before the callbacks that follow in the list run;
\* Keras 3 does it in on_train_end.  The script pins neither.
EarlyStoppingEpochEnd(e, ep, current, w, k3) ==
    LET seeded == IF e.best_weights = None THEN [e EXCEPT !.best_weights = w] ELSE e
        improved == current < e.best
        e1 == IF improved
              THEN [seeded EXCEPT !.best = current, !.best_weights = w, !.wait = 0]
              ELSE [seeded EXCEPT !.wait = @ + 1]
        halt == e1.wait >= EsPatience /\ ep > 0
    IN [es |-> IF halt THEN [e1 EXCEPT !.stopped_epoch = ep] ELSE e1,
        stop |-> halt,
        weights |-> IF halt /\ ~k3 THEN e1.best_weights ELSE w]

\* EarlyStopping.on_train_end
EarlyStoppingTrainEnd(e, w, k3) ==
    IF k3 /\ e.best_weights # None THEN e.best_weights ELSE w

\* ReduceLROnPlateau(monitor='val_loss', factor=0.5, patience=2, min_lr=1e-7), at
\* the end of an epoch (its min_delta of 1e-4 is below the resolution of Losses)
ReduceLROnPlateauEpochEnd(r, current, h) ==
    IF current < r.best
    THEN [rl |-> [best |-> current, wait |-> 0], halvings |-> h]
    ELSE IF r.wait + 1 >= RlPatience
         THEN IF h < LrFloorHalvings
              THEN [rl |-> [r EXCEPT !.wait = 0], halvings |-> h + 1]
              ELSE [rl |-> [r EXCEPT !.wait = @ + 1], halvings |-> h]
         ELSE [rl |-> [r EXCEPT !.wait = @ + 1], halvings |-> h]

\* ModelCheckpoint('best_model.keras', monitor='val_accuracy', save_best_only=True),
\* at the end of an epoch: monitor 'val_accuracy' selects "greater than"; the model
\* is saved as it is when the callback runs
ModelCheckpointEpochEnd(best, current, w, d) ==
    IF current > best
    THEN [best |-> current,
          disk |-> [d EXCEPT !.best_model = w, !.best_writes = @ + 1]]
    ELSE [best |-> best, disk |-> d]

\* history.history after one more epoch, kept as what the claims read from it: the
\* lowest val_loss and the highest val_accuracy so far, the first epoch of each, and
\* the number of epochs since val_loss last improved
HistoryAfter(h, e, l, a) ==
    [min_loss |-> IF l < h.min_loss THEN l ELSE h.min_loss,
     min_epoch |-> IF l < h.min_loss THEN e ELSE h.min_epoch,
     max_acc |-> IF a > h.max_acc THEN a ELSE h.max_acc,
     max_epoch |-> IF a > h.max_acc THEN e ELSE h.max_epoch,
     stale |-> IF l < h.min_loss THEN 0 ELSE h.stale + 1,
     acc_improved |-> a > h.max_acc]

\* model.fit: one epoch, that is one training pass, one validation pass and the
\* callbacks' on_epoch_end in the order of the list
RunEpoch ==
    /\ tpc = "fit"
    /\ epoch < EPOCHS
    /\ ~stop_training
    /\ \E l \in Losses, a \in Accs :
        LET trained == Params(epoch + 1, l, a)
            stopper == EarlyStoppingEpochEnd(es, epoch, l, trained, keras3)
            plateau == ReduceLROnPlateauEpochEnd(rl, l, halvings)
            saver == ModelCheckpointEpochEnd(ck_best, a, stopper.weights, disk)
        IN /\ es' = stopper.es
           /\ stop_training' = stopper.stop
           /\ weights' = stopper.weights
           /\ rl' = plateau.rl
           /\ halvings' = plateau.halvings
           /\ ck_best' = saver.best
           /\ disk' = saver.disk
           /\ hist' = HistoryAfter(hist, epoch + 1, l, a)
    /\ epoch' = epoch + 1
    /\ passes' = [passes EXCEPT !.train = @ + 1, !.val = @ + 1]
    /\ UNCHANGED <<tpc, keras3>>

\* model.fit returns: the loop ran EPOCHS times or stop_training was set
EndFit ==
    /\ tpc = "fit"
    /\ (epoch >= EPOCHS \/ stop_training)
    /\ weights' = EarlyStoppingTrainEnd(es, weights, keras3)
    /\ tpc' = "evaluate"
    /\ UNCHANGED <<keras3, epoch, stop_training, es, rl, halvings, ck_best, disk, hist,
                   passes>>

\* model.evaluate(test_generator), line 142
Evaluate ==
    /\ tpc = "evaluate"
    /\ passes' = [passes EXCEPT !.test_eval = @ + 1]
    /\ tpc' = "save"
    /\ UNCHANGED <<keras3, epoch, weights, stop_training, es, rl, halvings, ck_best,
                   disk, hist>>

\* SaveFinal writing to the checkpoint's path as well
SaveFinalOverCheckpoint ==
    /\ tpc = "save"
    /\ disk' = [disk EXCEPT !.final_model = weights, !.best_model = weights]
    /\ passes' = [passes EXCEPT !.final_saves = @ + 1]
    /\ tpc' = "predict"
    /\ UNCHANGED <<keras3, epoch, weights, stop_training, es, rl, halvings, ck_best,
                   hist>>

\* model.save('xray_pneumonia_model.keras'), line 175
SaveFinal ==
    /\ tpc = "save"
    /\ disk' = [disk EXCEPT !.final_model = weights]
    /\ passes' = [passes EXCEPT !.final_saves = @ + 1]
    /\ tpc' = "predict"
    /\ UNCHANGED <<keras3, epoch, weights, stop_training, es, rl, halvings, ck_best,
                   hist>>

\* model.predict(test_generator) and show_predictions, lines 179-205
PredictTestSet ==
    /\ tpc = "predict"
    /\ passes' = [passes EXCEPT !.test_predict = @ + 1]
    /\ tpc' = "done"
    /\ UNCHANGED <<keras3, epoch, weights, stop_training, es, rl, halvings, ck_best,
                   disk, hist>>

----------------------------------------------------------------------------
(* Specifications *)

\* the training script is not running
TrainIdle ==
    /\ tpc = "idle"
    /\ keras3 = FALSE
    /\ epoch = 0
    /\ weights = InitialParams
    /\ stop_training = FALSE
    /\ es = [best |-> LossInf, wait |-> 0, best_weights |-> None, stopped_epoch |-> 0]
    /\ rl = [best |-> LossInf, wait |-> 0]
    /\ halvings = 0
    /\ ck_best = AccNegInf
    /\ disk = [best_model |-> None, final_model |-> None, best_writes |-> 0]
    /\ hist = [min_loss |-> LossInf, min_epoch |-> 0, max_acc |-> AccNegInf,
               max_epoch |-> 0, stale |-> 0, acc_improved |-> FALSE]
    /\ passes = [train |-> 0, val |-> 0, test_eval |-> 0, test_predict |-> 0,
                 final_saves |-> 0]

\* the predictor is not running
PredictIdle ==
    /\ pc = "idle"
    /\ fs = [files |-> {}, dirs |-> {}, listing |-> <<>>]
    /\ model_file = "missing"
    /\ argv = <<>>
    /\ argi = 1
    /\ model = "none"
    /\ image_paths = <<>>
    /\ results = <<>>
    /\ bi = 0
    /\ stdout = <<>>
    /\ calls = NoCalls

\* python3 predict.py <images...>: main, up to the return of predict_image or the
\* call of predict_batch, whose loop is BatchSpec
Init == PredictInit /\ TrainIdle

Next ==
    \/ LoadModel /\ UNCHANGED tvars
    \/ CollectPath /\ UNCHANGED tvars
    \/ NoValidImages /\ UNCHANGED tvars
    \/ SingleImage /\ UNCHANGED tvars
    \/ EnterBatch /\ UNCHANGED tvars

Spec == Init /\ [][Next]_vars

\* predict_batch(model, image_paths), from its loop on, for any list of two or more
\* paths that main can hand over: files, and a directory named like an image
BatchPaths == {PngPath, TxtPath, Join(DirPath, <<"b", ".", "j", "p", "g">>), Join(DirPath, <<"s", ".", "p", "n", "g">>)}

BatchInit ==
    /\ pc = "batch"
    /\ fs = [files |-> BatchPaths \ {Join(DirPath, <<"s", ".", "p", "n", "g">>)},
             dirs |-> {DirPath, Join(DirPath, <<"s", ".", "p", "n", "g">>)},
             listing |-> << <<"b", ".", "j", "p", "g">>, <<"s", ".", "p", "n", "g">> >>]
    /\ model_file = "valid"
    /\ argv = <<>>
    /\ argi = 1
    /\ model = "loaded"
    /\ image_paths \in UNION { [1 .. n -> BatchPaths] : n \in 2 .. MaxImages }
    /\ results = <<>>
    /\ bi = 1
    /\ stdout = << Line("Processing", Len(image_paths), 0, 0) >>
    /\ calls = [NoCalls EXCEPT !.predict_batch = 1]
    /\ TrainIdle

BatchNext ==
    \/ BatchIterate /\ UNCHANGED tvars
    \/ BatchSummary /\ UNCHANGED tvars

BatchSpec == BatchInit /\ [][BatchNext]_vars

\* python3 train_model.py
TrainNext ==
    \/ RunEpoch /\ UNCHANGED pvars
    \/ EndFit /\ UNCHANGED pvars
    \/ Evaluate /\ UNCHANGED pvars
    \/ SaveFinal /\ UNCHANGED pvars
    \/ PredictTestSet /\ UNCHANGED pvars

TrainStart == TrainInit /\ PredictIdle

TrainSpec == TrainStart /\ [][TrainNext]_vars

----------------------------------------------------------------------------
(* Properties of predict_image and predict_batch *)

Max(a, b) == IF a >= b THEN a ELSE b
Lines(tag) == SelectSeq(stdout, LAMBDA ln : ln.tag = tag)
Last(s) == s[Len(s)]

\* C1: every result predict_image returns has diagnosis PNEUMONIA exactly when the
\* raw probability is above 0.5 (exactly 0.5 gives NORMAL), and a confidence equal
\* to max(p, 1 - p), hence at least 0.5; the printed result says the same.
C1_ThresholdAndConfidence ==
    /\ \A k \in 1 .. Len(results) :
        LET r == results[k]
        IN /\ r.raw_score \in Probs
           /\ r.diagnosis \in {"PNEUMONIA", "NORMAL"}
           /\ (r.diagnosis = "PNEUMONIA") <=> (2 * r.raw_score > Scale)
           /\ (2 * r.raw_score = Scale) => (r.diagnosis = "NORMAL")
           /\ r.confidence = Max(r.raw_score, Scale - r.raw_score)
           /\ 2 * r.confidence >= Scale
    /\ \A k \in 1 .. Len(stdout) :
        stdout[k].tag = "Prediction" =>
            /\ (stdout[k].a = "PNEUMONIA") <=> (2 * stdout[k].c > Scale)
            /\ stdout[k].b = Max(stdout[k].c, Scale - stdout[k].c)

\* a batch that saw probability 0.5 exactly, one above it and one below it
C1_Witness ==
    /\ \E k \in 1 .. Len(results) :
        2 * results[k].raw_score = Scale /\ results[k].diagnosis = "NORMAL"
    /\ \E k \in 1 .. Len(results) :
        2 * results[k].raw_score > Scale /\ results[k].diagnosis = "PNEUMONIA"
    /\ \E k \in 1 .. Len(results) : 2 * results[k].raw_score < Scale

\* C2: in predict_batch every image is attempted exactly once and in input order
\* whatever happened to the earlier ones: the progress lines printed so far are
\* those of images 1 .. bi-1 in order, each attempt made one predict_image call, each
\* failure printed one error line, the batch never aborts, it can always take its
\* next step, and when it is done all images were attempted and the summary is
\* printed.
C2_BatchNeverAborts ==
    /\ pc \in {"batch", "done"}
    /\ bi \in 1 .. Len(image_paths) + 1
    /\ Lines("Progress") =
           [k \in 1 .. bi - 1 |->
               Line("Progress", k, Len(image_paths), Basename(image_paths[k]))]
    /\ calls.predict_image = bi - 1
    /\ calls.preprocess = bi - 1
    /\ Len(Lines("Error")) + Len(results) = bi - 1
    /\ pc = "batch" => ENABLED BatchNext
    /\ pc = "done" =>
        /\ bi = Len(image_paths) + 1
        /\ Len(Lines("Summary")) = 1
        /\ Last(stdout).tag = "Pneumonia"

\* a finished batch in which an image failed and a later one was still predicted
C2_Witness ==
    /\ pc = "done"
    /\ \E i, j \in 1 .. Len(stdout) :
        i < j /\ stdout[i].tag = "Error" /\ stdout[j].tag = "Arrow"
    /\ Last(stdout).tag = "Pneumonia"

\* the images whose attempt did not end in an error line, as the output shows them:
\* the progress lines not followed by an error line
Succeeded ==
    LET idx == {k \in 1 .. Len(stdout) :
                    /\ stdout[k].tag = "Progress"
                    /\ k < Len(stdout)
                    /\ stdout[k + 1].tag # "Error"}
    IN SelectSeq([k \in 1 .. Len(stdout) |-> IF k \in idx THEN stdout[k].a ELSE 0],
                 LAMBDA x : x # 0)

\* C3: once predict_batch has processed the list, results holds one entry per
\* successfully processed image, in input order, and none for a failed image, and
\* the printed Normal count plus the printed Pneumonia count is the number of
\* successfully processed images.
C3_SummaryCountsSuccesses ==
    pc = "done" =>
        /\ Len(results) = Len(Succeeded)
        /\ \A k \in 1 .. Len(results) :
            results[k].image = Basename(image_paths[Succeeded[k]])
        /\ Len(results) + Len(Lines("Error")) = Len(image_paths)
        /\ Len(Lines("Normal")) = 1
        /\ Len(Lines("Pneumonia")) = 1
        /\ Lines("Normal")[1].a + Lines("Pneumonia")[1].a = Len(Succeeded)

\* a finished batch with a failure, and two images of the same name and the same
\* result among the successes
C3_Witness ==
    /\ pc = "done"
    /\ Len(Lines("Error")) >= 1
    /\ \E i, j \in 1 .. Len(results) : i # j /\ results[i] = results[j]

----------------------------------------------------------------------------
(* Properties of main *)

\* main's loop over args.images has finished
Resolved == argi > Len(argv)

\* the name ends in .jpg, .jpeg or .png, whatever the case of its letters
ImageName(f) ==
    \E e \in 1 .. Len(Extensions) :
        LET ext == Extensions[e]
        IN /\ Len(f) >= Len(ext)
           /\ \A i \in 1 .. Len(ext) : LowerChar(f[Len(f) - Len(ext) + i]) = ext[i]

\* C4 as stated: every path of the resolved list names an existing file whose
\* extension is .jpg, .jpeg or .png.
C4_Original ==
    \A k \in 1 .. Len(image_paths) :
        IsFile(image_paths[k]) /\ ImageName(Basename(image_paths[k]))

\* C4, amended: every path of the resolved list is either a path argument that is
\* an existing file (of any extension), or an entry of a directory argument whose
\* name ends in .jpg, .jpeg or .png in any case (the entry itself may be a
\* directory); no missing path is in the list.
C4_ResolvedPaths ==
    \A k \in 1 .. Len(image_paths) :
        LET p == image_paths[k]
        IN /\ Exists(p)
           /\ \/ p \in Range(argv) /\ IsFile(p)
              \/ \E d \in Range(argv) :
                    /\ IsDir(d)
                    /\ \E f \in Range(ListDir(d)) : p = Join(d, f) /\ ImageName(f)

\* all arguments are resolved; one was missing and dropped, one was a file without
\* an image extension and kept, one was a directory that gave an entry
C4_Witness ==
    /\ Resolved
    /\ \E a \in Range(argv) : ~Exists(a)
    /\ \E p \in Range(image_paths) : p \in Range(argv) /\ ~ImageName(p)
    /\ \E p \in Range(image_paths) : p \notin Range(argv)

SingleDirectory == Len(argv) = 1 /\ IsDir(argv[1]) /\ Resolved

\* position of a name in the listing, and of its extension in the code's list
ListingIndex(f) == CHOOSE i \in 1 .. Len(fs.listing) : fs.listing[i] = f
ExtRank(f) == CHOOSE e \in 1 .. Len(Extensions) : EndsWith(Lower(f), Extensions[e])

C6_NoImagesNoPrediction ==
    (model = "loaded" /\ image_paths = <<>> /\ pc \notin {"main", "collect"}) =>
        /\ pc = "done"
        /\ Last(stdout).tag = "NoValidImages"
        /\ calls = NoCalls
        /\ results = <<>>

\* the run ended on the message, with arguments that were all missing or gave nothing
C6_Witness ==
    /\ pc = "done"
    /\ image_paths = <<>>
    /\ Len(argv) >= 1
    /\ Printed("NoValidImages")
    /\ \E a \in Range(argv) : IsDir(a)

\* C7: with no file at the model path the load fails fatally: the run ends there,
\* no path is resolved, no image preprocessed, no prediction made; and any
\* prediction call at all comes after a successful load.
C7_MissingModelIsFatal ==
    /\ model_file = "missing" =>
        /\ pc \in {"main", "fatal"}
        /\ model = "none"
        /\ argi = 1
        /\ image_paths = <<>>
        /\ calls = NoCalls
        /\ stdout = <<>>
    /\ (calls # NoCalls \/ image_paths # <<>> \/ argi > 1) =>
        /\ model = "loaded"
        /\ model_file = "valid"
        /\ Printed("Loaded")

\* the run died on the missing model although an argument named an existing file
C7_Witness ==
    /\ pc = "fatal"
    /\ model_file = "missing"
    /\ \E a \in Range(argv) : IsFile(a)

----------------------------------------------------------------------------
(* Properties of the training script *)

\* C8: the loop runs at most EPOCHS epochs, each one training pass and one
\* validation pass; as soon as validation loss has not improved for 3 consecutive
\* epochs the loop halts (no further epoch runs), and once fit has returned after
\* such a halt the model holds the parameters of the best epoch, the first one with
\* the lowest validation loss.
C8_EarlyStopRestoresBest ==
    /\ epoch \in 0 .. EPOCHS
    /\ passes.train = epoch
    /\ passes.val = epoch
    /\ hist.stale <= 3
    /\ hist.stale = 3 <=> stop_training
    /\ (stop_training /\ tpc # "fit") =>
        /\ weights.epoch = hist.min_epoch
        /\ weights.val_loss = hist.min_loss
        /\ epoch = hist.min_epoch + 3

\* fit returned early, on a run whose best epoch was not its first
C8_Witness ==
    /\ tpc = "evaluate"
    /\ stop_training
    /\ epoch < EPOCHS
    /\ hist.min_epoch > 1
    /\ weights.epoch = hist.min_epoch

\* C9 as stated: after every epoch best_model.keras holds the parameters of the
\* earliest epoch that attained the highest validation accuracy so far, whatever
\* the early-stop policy did.
C9_CheckpointHoldsBestAccuracy ==
    epoch >= 1 =>
        /\ disk.best_model.epoch = hist.max_epoch
        /\ disk.best_model.val_accuracy = hist.max_acc

\* what holds of every state of the script: the order and the number of the
\* evaluation pass and of the final save
C10_State ==
    /\ passes.test_eval <= 1
    /\ passes.final_saves <= 1
    /\ tpc = "fit" => passes.test_eval = 0
    /\ tpc \in {"fit", "evaluate", "save"} =>
        passes.final_saves = 0 /\ disk.final_model = None
    /\ tpc \in {"save", "predict", "done"} => passes.test_eval = 1
    /\ tpc \in {"predict", "done"} =>
        passes.final_saves = 1 /\ disk.final_model = weights
    /\ tpc # "fit" => (epoch = EPOCHS \/ stop_training)

\* what holds of every step after fit has returned
C10_Step ==
    tpc \in {"evaluate", "save", "predict"} =>
        /\ weights' = weights
        /\ disk'.best_model = disk.best_model
        /\ disk'.best_writes = disk.best_writes

\* C10: when the epoch loop has ended, by completion or by early stop, there is
\* exactly one evaluation pass over the test stream, it changes no parameter, the
\* final snapshot is written after it, once, holding the model's parameters, and
\* neither the evaluation nor the final save touches best_model.keras.
C10_EvaluateThenFinalSave == [](C10_State) /\ [][C10_Step]_vars

\* the script ran to its end after all EPOCHS epochs, no early stop, and the two
\* files differ
C10_Witness ==
    /\ tpc = "done"
    /\ epoch = EPOCHS
    /\ ~stop_training
    /\ disk.final_model # disk.best_model

=============================================================================
